---- MODULE Spec2Model ----
(***************************************************************************)
(* Weight-budgeted task executor of frame/support/src/executor.rs:         *)
(* the RuntimeTask contract, the reference test Task, the single_pass      *)
(* driver and the SinglePassExecutor container.                            *)
(***************************************************************************)
EXTENDS Integers, Sequences, FiniteSets

\* ------------------------------------------------------------------ bounds
MaxLen == 2
MaxOpaqueLen == 3
MaxWeight == 2
MaxHalf == 1
MaxQuota == 2
MaxReport == 2
MaxTestLen == 3
MaxStoredLen == 64

VARIABLES
    taskType,   \* the `Task` type parameter of SinglePassExecutor<Task, Quota>
    tasks,      \* SinglePassExecutor::tasks, the queue
    quota,      \* the value Quota::get() returned to the last operation (0 when it read none)
    op,         \* the last operation called on the executor
    arg,        \* its task argument, as an Option (<<>> or <<t>>)
    ret,        \* the Weight the last execute() returned (0 for the other operations)
    prev,       \* the queue before the last operation
    calls,      \* the RuntimeTask::execute invocations the last operation made, in time order
    kept,       \* for the last operation, the index in prev of each element of tasks
    rank,       \* rank[i]: position of tasks[i] among the queued tasks ordered by time of add_task
    stored      \* the storage value of the executor, as an Option of bytes (<<>> or <<bytes>>)

vars == <<taskType, tasks, quota, op, arg, ret, prev, calls, kept, rank, stored>>

\* ------------------------------------------------------------ weight (u64)
Min(a, b) == IF a <= b THEN a ELSE b

saturating_sub(a, b) == IF a >= b THEN a - b ELSE 0

\* ------------------------------------------------------------------- tasks
\* One record shape for every implementor of RuntimeTask that is modelled:
\*   "Task"   the reference task of the test module (weight, half, greedy)
\*   "Unit"   the implementation for ()
\*   "Opaque" any other implementor: it reports `report` whatever the cap is,
\*            and either completes or (again) survives one invocation
RefTask(w, h, g) ==
    [kind |-> "Task", weight |-> w, half |-> h, greedy |-> g, report |-> 0, again |-> FALSE]

UnitTask ==
    [kind |-> "Unit", weight |-> 0, half |-> 0, greedy |-> FALSE, report |-> 0, again |-> FALSE]

OpaqueTask(r, a) ==
    [kind |-> "Opaque", weight |-> 0, half |-> 0, greedy |-> FALSE, report |-> r, again |-> a]

\* TaskBuilder::default().half(h).greedy(g).build(w)
build(w, h, g) == RefTask(w, h, g)

\* maybe_destroy with `>=` for `>`: a finished task is kept
maybe_destroy_keeps(self) == IF self.weight >= 0 THEN <<self>> ELSE <<>>

\* Task::maybe_destroy
maybe_destroy(self) == IF self.weight > 0 THEN <<self>> ELSE <<>>

\* consume with the greedy flag ignored: every task is all-or-nothing
consume_all_or_nothing(self, amount, max_weight) ==
    IF amount > max_weight
    THEN [survivor |-> IF self.weight > 0 THEN <<self>> ELSE <<>>, consumed |-> 0]
    ELSE [survivor |-> IF self.weight - amount > 0
                       THEN <<[self EXCEPT !.weight = @ - amount]>> ELSE <<>>,
          consumed |-> amount]

\* consume with the cap ignored: the whole amount is taken at once
consume_uncapped(self, amount, max_weight) ==
    [survivor |-> IF self.weight - amount > 0
                  THEN <<[self EXCEPT !.weight = @ - amount]>> ELSE <<>>,
     consumed |-> amount]

\* consume with `>=` for `>` in the all-or-nothing test: an exact fit is refused
consume_strict_fit(self, amount, max_weight) ==
    IF self.greedy
    THEN IF amount > max_weight
         THEN [survivor |-> maybe_destroy([self EXCEPT !.weight = @ - max_weight]),
               consumed |-> max_weight]
         ELSE [survivor |-> maybe_destroy([self EXCEPT !.weight = @ - amount]),
               consumed |-> amount]
    ELSE IF amount >= max_weight
         THEN [survivor |-> maybe_destroy(self), consumed |-> 0]
         ELSE [survivor |-> maybe_destroy([self EXCEPT !.weight = @ - amount]),
               consumed |-> amount]

\* consume whose capped branch reports the amount it wanted, not what it took
consume_reports_amount(self, amount, max_weight) ==
    IF self.greedy
    THEN IF amount > max_weight
         THEN [survivor |-> maybe_destroy([self EXCEPT !.weight = @ - max_weight]),
               consumed |-> amount]
         ELSE [survivor |-> maybe_destroy([self EXCEPT !.weight = @ - amount]),
               consumed |-> amount]
    ELSE IF amount > max_weight
         THEN [survivor |-> maybe_destroy(self), consumed |-> 0]
         ELSE [survivor |-> maybe_destroy([self EXCEPT !.weight = @ - amount]),
               consumed |-> amount]

\* consume whose no-op branch gives the task up: a task that does not fit is dropped
consume_drops_unfit(self, amount, max_weight) ==
    IF self.greedy
    THEN IF amount > max_weight
         THEN [survivor |-> maybe_destroy([self EXCEPT !.weight = @ - max_weight]),
               consumed |-> max_weight]
         ELSE [survivor |-> maybe_destroy([self EXCEPT !.weight = @ - amount]),
               consumed |-> amount]
    ELSE IF amount > max_weight
         THEN [survivor |-> <<>>, consumed |-> 0]
         ELSE [survivor |-> maybe_destroy([self EXCEPT !.weight = @ - amount]),
               consumed |-> amount]

\* Task::consume
consume(self, amount, max_weight) ==
    IF self.greedy
    THEN IF amount > max_weight
         THEN [survivor |-> maybe_destroy([self EXCEPT !.weight = @ - max_weight]),
               consumed |-> max_weight]
         ELSE [survivor |-> maybe_destroy([self EXCEPT !.weight = @ - amount]),
               consumed |-> amount]
    ELSE IF amount > max_weight
         THEN [survivor |-> maybe_destroy(self), consumed |-> 0]
         ELSE [survivor |-> maybe_destroy([self EXCEPT !.weight = @ - amount]),
               consumed |-> amount]

\* execute without `self.half -= 1`: the task halves its target for ever
Task_execute_keeps_half(self, max_weight) ==
    LET weight_needed == self.weight IN
    IF self.half = 0
    THEN consume(self, weight_needed, max_weight)
    ELSE consume(self, weight_needed \div 2, max_weight)

\* <Task as RuntimeTask>::execute
Task_execute(self, max_weight) ==
    LET weight_needed == self.weight IN
    IF self.half = 0
    THEN consume(self, weight_needed, max_weight)
    ELSE consume([self EXCEPT !.half = @ - 1], weight_needed \div 2, max_weight)

\* <() as RuntimeTask>::execute
Unit_execute(self, max_weight) == [survivor |-> <<>>, consumed |-> 0]

\* an arbitrary implementor of RuntimeTask::execute
Opaque_execute(self, max_weight) ==
    [survivor |-> IF self.again THEN <<[self EXCEPT !.again = FALSE]>> ELSE <<>>,
     consumed |-> self.report]

\* RuntimeTask::execute, dispatched on the implementor
task_execute(self, max_weight) ==
    CASE self.kind = "Task" -> Task_execute(self, max_weight)
      [] self.kind = "Unit" -> Unit_execute(self, max_weight)
      [] OTHER -> Opaque_execute(self, max_weight)

\* RuntimeTask::leftover
leftover(self) == self.weight

\* ------------------------------------------------------------- single_pass
\* the closure that drops the result of saturating_sub: the budget is never reduced
invoke_keeps_budget(task, i, acc) ==
    LET r == task_execute(task, acc.leftover_weight) IN
    [leftover_weight |-> acc.leftover_weight,
     next_tasks |-> acc.next_tasks \o r.survivor,
     kept |-> IF r.survivor = <<>> THEN acc.kept ELSE Append(acc.kept, i),
     calls |-> Append(acc.calls, [idx |-> i, cap |-> acc.leftover_weight,
                                  consumed |-> r.consumed,
                                  survived |-> r.survivor # <<>>])]

\* the closure with map for filter_map: a task that returned None is put back
invoke_keeps_completed(task, i, acc) ==
    LET r == task_execute(task, acc.leftover_weight) IN
    [leftover_weight |-> saturating_sub(acc.leftover_weight, r.consumed),
     next_tasks |-> acc.next_tasks \o (IF r.survivor = <<>> THEN <<task>> ELSE r.survivor),
     kept |-> Append(acc.kept, i),
     calls |-> Append(acc.calls, [idx |-> i, cap |-> acc.leftover_weight,
                                  consumed |-> r.consumed,
                                  survived |-> r.survivor # <<>>])]

\* what one task.execute(leftover_weight) does to the state of the walk: acc is
\* the captured leftover_weight with what has been collected so far
invoke(task, i, acc) ==
    LET r == task_execute(task, acc.leftover_weight) IN
    [leftover_weight |-> saturating_sub(acc.leftover_weight, r.consumed),
     next_tasks |-> acc.next_tasks \o r.survivor,
     kept |-> IF r.survivor = <<>> THEN acc.kept ELSE Append(acc.kept, i),
     calls |-> Append(acc.calls, [idx |-> i, cap |-> acc.leftover_weight,
                                  consumed |-> r.consumed,
                                  survived |-> r.survivor # <<>>])]

\* the closure without the `leftover_weight.is_zero()` test: every task is invoked
visit_eager(task, i, acc) == invoke(task, i, acc)

RECURSIVE walk_eager(_, _, _)
walk_eager(ts, i, acc) ==
    IF i > Len(ts) THEN acc
    ELSE CHOOSE y \in {walk_eager(ts, i + 1, x) : x \in {visit_eager(ts[i], i, acc)}} : TRUE

\* the closure that gives the budget up when a task consumes nothing
visit_stop_on_stall(task, i, acc) ==
    IF acc.leftover_weight = 0
    THEN [acc EXCEPT !.next_tasks = Append(@, task), !.kept = Append(@, i)]
    ELSE LET a == invoke(task, i, acc) IN
         IF a.leftover_weight = acc.leftover_weight
         THEN [a EXCEPT !.leftover_weight = 0]
         ELSE a

\* the filter_map closure of single_pass, applied to tasks[i]
visit(task, i, acc) ==
    IF acc.leftover_weight = 0
    THEN [acc EXCEPT !.next_tasks = Append(@, task), !.kept = Append(@, i)]
    ELSE invoke(task, i, acc)

\* tasks.iter().cloned().filter_map(..).collect(), from tasks[i] on: the value of
\* the rest of the walk for x, the state after the visit of tasks[i]
RECURSIVE walk(_, _, _)
walk(ts, i, acc) ==
    IF i > Len(ts) THEN acc
    ELSE CHOOSE y \in {walk(ts, i + 1, x) : x \in {visit(ts[i], i, acc)}} : TRUE

\* single_pass without the short-circuit and without the zero test of the walk
single_pass_eager(ts, max_weight) ==
    LET a == walk_eager(ts, 1, [leftover_weight |-> max_weight, next_tasks |-> <<>>,
                                kept |-> <<>>, calls |-> <<>>])
    IN [next_tasks |-> a.next_tasks,
        consumed |-> saturating_sub(max_weight, a.leftover_weight),
        kept |-> a.kept, calls |-> a.calls]

\* single_pass whose short-circuit charges the whole quota
single_pass_charged(ts, max_weight) ==
    IF ts = <<>> \/ max_weight = 0
    THEN [next_tasks |-> ts, consumed |-> max_weight,
          kept |-> [i \in 1..Len(ts) |-> i], calls |-> <<>>]
    ELSE LET a == walk(ts, 1, [leftover_weight |-> max_weight, next_tasks |-> <<>>,
                               kept |-> <<>>, calls |-> <<>>])
         IN [next_tasks |-> a.next_tasks,
             consumed |-> saturating_sub(max_weight, a.leftover_weight),
             kept |-> a.kept, calls |-> a.calls]

\* single_pass that returns the sum of what the tasks report
RECURSIVE SumConsumed(_)
SumConsumed(cs) == IF cs = <<>> THEN 0 ELSE Head(cs).consumed + SumConsumed(Tail(cs))

single_pass_summed(ts, max_weight) ==
    IF ts = <<>> \/ max_weight = 0
    THEN [next_tasks |-> ts, consumed |-> 0,
          kept |-> [i \in 1..Len(ts) |-> i], calls |-> <<>>]
    ELSE LET a == walk(ts, 1, [leftover_weight |-> max_weight, next_tasks |-> <<>>,
                               kept |-> <<>>, calls |-> <<>>])
         IN [next_tasks |-> a.next_tasks,
             consumed |-> SumConsumed(a.calls),
             kept |-> a.kept, calls |-> a.calls]

\* single_pass that offers the budget left after the walk to the survivors again
single_pass_retry(ts, max_weight) ==
    IF ts = <<>> \/ max_weight = 0
    THEN [next_tasks |-> ts, consumed |-> 0,
          kept |-> [i \in 1..Len(ts) |-> i], calls |-> <<>>]
    ELSE LET a == walk(ts, 1, [leftover_weight |-> max_weight, next_tasks |-> <<>>,
                               kept |-> <<>>, calls |-> <<>>])
             b == walk(a.next_tasks, 1, [leftover_weight |-> a.leftover_weight,
                                         next_tasks |-> <<>>, kept |-> <<>>, calls |-> <<>>])
         IN [next_tasks |-> b.next_tasks,
             consumed |-> saturating_sub(max_weight, b.leftover_weight),
             kept |-> [j \in 1..Len(b.kept) |-> a.kept[b.kept[j]]],
             calls |-> a.calls \o [k \in 1..Len(b.calls) |->
                                     [b.calls[k] EXCEPT !.idx = a.kept[@]]]]

\* single_pass that returns what is left of the budget instead of what was used
single_pass_leftover(ts, max_weight) ==
    IF ts = <<>> \/ max_weight = 0
    THEN [next_tasks |-> ts, consumed |-> 0,
          kept |-> [i \in 1..Len(ts) |-> i], calls |-> <<>>]
    ELSE LET a == walk(ts, 1, [leftover_weight |-> max_weight, next_tasks |-> <<>>,
                               kept |-> <<>>, calls |-> <<>>])
         IN [next_tasks |-> a.next_tasks,
             consumed |-> a.leftover_weight,
             kept |-> a.kept, calls |-> a.calls]

\* single_pass
single_pass(ts, max_weight) ==
    IF ts = <<>> \/ max_weight = 0
    THEN [next_tasks |-> ts, consumed |-> 0,
          kept |-> [i \in 1..Len(ts) |-> i], calls |-> <<>>]
    ELSE LET a == walk(ts, 1, [leftover_weight |-> max_weight, next_tasks |-> <<>>,
                               kept |-> <<>>, calls |-> <<>>])
         IN [next_tasks |-> a.next_tasks,
             consumed |-> saturating_sub(max_weight, a.leftover_weight),
             kept |-> a.kept, calls |-> a.calls]

\* ------------------------------------------------------------- Vec helpers
\* Vec::insert(0, x): the new element goes to the head
push_front(s, x) == <<x>> \o s

\* Vec::push
push(s, x) == Append(s, x)

\* position searching from the back (rposition)
position_last(s, t) ==
    IF \E i \in 1..Len(s) : s[i] = t
    THEN CHOOSE i \in 1..Len(s) : s[i] = t /\ \A j \in (i + 1)..Len(s) : s[j] # t
    ELSE 0

\* Iterator::position(|t| t == &task): 0 stands for None
position(s, t) ==
    IF \E i \in 1..Len(s) : s[i] = t
    THEN CHOOSE i \in 1..Len(s) : s[i] = t /\ \A j \in 1..(i - 1) : s[j] # t
    ELSE 0

\* Vec::swap_remove(index): the last element takes the place of the removed one
vec_remove_swap(s, index) ==
    [k \in 1..(Len(s) - 1) |-> IF k = index THEN s[Len(s)] ELSE s[k]]

\* Vec::remove(index)
vec_remove(s, index) == [k \in 1..(Len(s) - 1) |-> IF k < index THEN s[k] ELSE s[k + 1]]

\* SinglePassExecutor::count
count(ts) == Len(ts)

\* the ranks of the elements of s among themselves
Renorm(s) == [i \in 1..Len(s) |-> Cardinality({j \in 1..Len(s) : s[j] <= s[i]})]

\* ----------------------------------------------------------- encoded form
\* the k low bytes of n, little-endian
RECURSIVE le_bytes(_, _)
le_bytes(n, k) == IF k = 0 THEN <<>> ELSE <<n % 256>> \o le_bytes(n \div 256, k - 1)

\* the number a little-endian byte string stands for
RECURSIVE le_value(_)
le_value(bs) == IF bs = <<>> THEN 0 ELSE Head(bs) + 256 * le_value(Tail(bs))

\* Compact::<u32>::encode: the two low bits of the first byte give the width
compact_encode(n) ==
    IF n < 64 THEN <<n * 4>>
    ELSE IF n < 16384 THEN le_bytes(n * 4 + 1, 2)
    ELSE IF n < 1073741824 THEN le_bytes(n * 4 + 2, 4)
    ELSE <<3>> \o le_bytes(n, 4)

\* Compact::<u32>::decode: the value and the number of bytes read, or an error
compact_decode(bs) ==
    LET fail == [ok |-> FALSE, value |-> 0, used |-> 0]
        mode == bs[1] % 4
    IN IF bs = <<>> THEN fail
       ELSE IF mode = 0 THEN [ok |-> TRUE, value |-> bs[1] \div 4, used |-> 1]
       ELSE IF mode = 1
            THEN IF Len(bs) < 2 THEN fail
                 ELSE [ok |-> TRUE, value |-> le_value(SubSeq(bs, 1, 2)) \div 4, used |-> 2]
       ELSE IF mode = 2
            THEN IF Len(bs) < 4 THEN fail
                 ELSE [ok |-> TRUE, value |-> le_value(SubSeq(bs, 1, 4)) \div 4, used |-> 4]
       ELSE IF bs[1] # 3 \/ Len(bs) < 5 THEN fail
            ELSE [ok |-> TRUE, value |-> le_value(SubSeq(bs, 2, 5)), used |-> 5]

\* the encoded size of the reference task: weight (u64), half (u8), greedy (bool)
TaskBytes == 8 + 1 + 1

\* #[derive(Encode)] for the reference task, and the empty encoding of ()
encode_task(t) ==
    CASE t.kind = "Task" -> le_bytes(t.weight, 8) \o <<t.half>> \o <<IF t.greedy THEN 1 ELSE 0>>
      [] t.kind = "Unit" -> <<>>

\* #[derive(Decode)] for the reference task, as an Option
decode_task(bs) ==
    IF Len(bs) < TaskBytes \/ bs[TaskBytes] \notin {0, 1} THEN <<>>
    ELSE <<build(le_value(SubSeq(bs, 1, 8)), bs[9], bs[TaskBytes] = 1)>>

RECURSIVE encode_tasks(_)
encode_tasks(ts) == IF ts = <<>> THEN <<>> ELSE encode_task(Head(ts)) \o encode_tasks(Tail(ts))

\* n tasks read from bs one after the other, as an Option of the queue
RECURSIVE decode_tasks(_, _)
decode_tasks(bs, n) ==
    IF n = 0 THEN <<<<>>>>
    ELSE LET t == decode_task(bs) IN
         IF t = <<>> THEN <<>>
         ELSE LET rest == decode_tasks(SubSeq(bs, TaskBytes + 1, Len(bs)), n - 1) IN
              IF rest = <<>> THEN <<>> ELSE <<t \o rest[1]>>

\* #[derive(Encode)] for SinglePassExecutor: the Vec<Task>, a compact length and
\* the tasks in queue order; the PhantomData adds nothing
encode_executor(ts) == compact_encode(Len(ts)) \o encode_tasks(ts)

\* #[derive(Decode)] for SinglePassExecutor, as an Option of the queue
decode_executor(bs) ==
    LET c == compact_decode(bs) IN
    IF ~c.ok THEN <<>> ELSE decode_tasks(SubSeq(bs, c.used + 1, Len(bs)), c.value)

\* a length probe that reads the prefix as a fixed-width u32
decode_len_fixed_width(self_encoded) ==
    IF Len(self_encoded) < 4 THEN <<>> ELSE <<le_value(SubSeq(self_encoded, 1, 4))>>

\* <SinglePassExecutor as DecodeLength>::len, as an Option (<<>> for Err)
decode_len(self_encoded) ==
    LET c == compact_decode(self_encoded) IN
    IF c.ok THEN <<c.value>> ELSE <<>>

\* StorageAppend::append on the stored bytes: the length prefix is decoded,
\* incremented and written again, the item goes behind the bytes that follow
\* the old prefix; a missing value counts as the empty queue
storage_append(value, item) ==
    LET old == IF value = <<>> THEN compact_encode(0) ELSE value[1]
        c == compact_decode(old)
    IN IF ~c.ok THEN <<compact_encode(1) \o item>>
       ELSE <<compact_encode(c.value + 1) \o SubSeq(old, c.used + 1, Len(old)) \o item>>

\* ---------------------------------------------------------------- universes
TaskTypes == {"Task", "Unit", "Opaque"}

Universe(ty) ==
    CASE ty = "Task" -> {RefTask(w, h, g) : w \in 0..MaxWeight, h \in 0..MaxHalf, g \in BOOLEAN}
      [] ty = "Unit" -> {UnitTask}
      [] OTHER -> {OpaqueTask(r, a) : r \in 0..MaxReport, a \in BOOLEAN}

Quotas == 0..MaxQuota

\* Default::default() of the task type
Default(ty) ==
    CASE ty = "Task" -> RefTask(0, 0, FALSE)
      [] ty = "Unit" -> UnitTask
      [] OTHER -> OpaqueTask(0, FALSE)

\* the arguments remove is called with: every queued task, and the default
\* task, which stands for a task that is not queued whenever it is not
RemoveArgs == {tasks[i] : i \in 1..Len(tasks)} \cup {Default(taskType)}

\* the tasks and quotas the tests of the module build
TestTasks ==
    {build(10, 0, TRUE), build(20, 0, TRUE), build(30, 0, TRUE),
     build(30, 1, FALSE), build(20, 1, FALSE), build(10, 1, FALSE)}

TestQuotas == {0, 7, 10, 12, 36}

\* the longest queue that is modelled, by task type
LenBound(ty) == IF ty = "Task" THEN MaxLen ELSE MaxOpaqueLen

\* --------------------------------------------------------------- operations
\* SinglePassExecutor::new
new(ty) ==
    /\ taskType = ty
    /\ tasks = <<>>
    /\ quota = 0
    /\ op = "new"
    /\ arg = <<>>
    /\ ret = 0
    /\ prev = <<>>
    /\ calls = <<>>
    /\ kept = <<>>
    /\ rank = <<>>
    /\ stored = <<>>

Init == \E ty \in TaskTypes : new(ty)

\* SinglePassExecutor::add_task
add_task(task) ==
    /\ tasks' = push(tasks, task)
    /\ rank' = push(rank, Len(rank) + 1)
    /\ op' = "add_task"
    /\ arg' = <<task>>
    /\ ret' = 0
    /\ prev' = tasks
    /\ calls' = <<>>
    /\ kept' = [i \in 1..Len(tasks) |-> i]
    /\ quota' = 0
    /\ UNCHANGED <<taskType, stored>>

\* SinglePassExecutor::clear
clear ==
    /\ tasks' = <<>>
    /\ rank' = <<>>
    /\ op' = "clear"
    /\ arg' = <<>>
    /\ ret' = 0
    /\ prev' = tasks
    /\ calls' = <<>>
    /\ kept' = <<>>
    /\ quota' = 0
    /\ UNCHANGED <<taskType, stored>>

\* SinglePassExecutor::remove
remove(task) ==
    LET maybe_index == position(tasks, task) IN
    /\ IF maybe_index # 0
       THEN /\ tasks' = vec_remove(tasks, maybe_index)
            /\ rank' = Renorm(vec_remove(rank, maybe_index))
            /\ kept' = vec_remove([i \in 1..Len(tasks) |-> i], maybe_index)
       ELSE /\ tasks' = tasks
            /\ rank' = rank
            /\ kept' = [i \in 1..Len(tasks) |-> i]
    /\ op' = "remove"
    /\ arg' = <<task>>
    /\ ret' = 0
    /\ prev' = tasks
    /\ calls' = <<>>
    /\ quota' = 0
    /\ UNCHANGED <<taskType, stored>>

\* SinglePassExecutor::execute, with Quota::get() returning max_weight
execute(max_weight) ==
    \E r \in {single_pass(tasks, max_weight)} :
       /\ quota' = max_weight
       /\ tasks' = r.next_tasks
       /\ ret' = r.consumed
       /\ rank' = Renorm([j \in 1..Len(r.kept) |-> rank[r.kept[j]]])
       /\ kept' = r.kept
       /\ calls' = r.calls
       /\ op' = "execute"
       /\ arg' = <<>>
       /\ prev' = tasks
       /\ UNCHANGED <<taskType, stored>>

Next ==
    \/ \E t \in Universe(taskType) : Len(tasks) < LenBound(taskType) /\ add_task(t)
    \/ \E t \in RemoveArgs : remove(t)
    \/ clear
    \/ \E W \in Quotas : execute(W)

Spec == Init /\ [][Next]_vars

\* The executor driven as the tests of the module drive it: tasks are added,
\* the quota is set and execute is called.
InitTests == new("Task")

NextTests ==
    \/ \E t \in TestTasks : Len(tasks) < MaxTestLen /\ add_task(t)
    \/ \E W \in TestQuotas : execute(W)

SpecTests == InitTests /\ [][NextTests]_vars

\* A queue of greedy, half = 0 reference tasks is built and then executed again and again
\* under one quota: nothing is added once execute has been called, and every
\* execute reads the quota the first one read.
DrainTasks == {build(w, 0, TRUE) : w \in 0..MaxWeight} \cup {build(10, 0, TRUE)}

DrainQuotas == (1..MaxQuota) \cup {7, 10, 12}

InitDrain == new("Task")

BuildDrain == \E t \in DrainTasks : op # "execute" /\ Len(tasks) < MaxTestLen /\ add_task(t)

ExecuteDrain == \E W \in DrainQuotas : (op = "execute" => W = quota) /\ execute(W)

NextDrain == BuildDrain \/ ExecuteDrain

SpecDrain == InitDrain /\ [][NextDrain]_vars /\ WF_vars(ExecuteDrain)

\* A queue of reference tasks of every kind is built and then executed again and
\* again under one quota, which may be zero. A task is built with half = 0 or
\* with the largest half; it takes the values between as it is executed.
TermTasks == {build(w, h, g) : w \in 0..MaxWeight, h \in {0, MaxHalf}, g \in BOOLEAN}

InitTerm == new("Task")

BuildTerm == \E t \in TermTasks : op # "execute" /\ Len(tasks) < MaxLen /\ add_task(t)

ExecuteTerm == \E W \in Quotas : (op = "execute" => W = quota) /\ execute(W)

NextTerm == BuildTerm \/ ExecuteTerm

SpecTerm == InitTerm /\ [][NextTerm]_vars /\ WF_vars(ExecuteTerm)

\* The executor as a storage value (tests::shim_works): tasks are appended to
\* the stored bytes, the length is probed and the value is read back. Short
\* queues hold any of ShimTasks; a queue of default-built tasks of weights
\* 1, 2, 3, .. grows until its length prefix takes two bytes.
ShimTasks == {build(10, 0, TRUE), build(20, 0, TRUE), build(30, 0, TRUE), build(300, 1, FALSE)}

Filler(n) == build(n, 0, TRUE)

\* the queue the stored bytes decode to, empty when there is no value
StoredQueue ==
    IF stored = <<>> \/ decode_executor(stored[1]) = <<>> THEN <<>>
    ELSE decode_executor(stored[1])[1]

\* StorageValue::append(task)
shim_append(task) ==
    /\ stored' = storage_append(stored, encode_task(task))
    /\ op' = "append"
    /\ arg' = <<task>>
    /\ prev' = StoredQueue
    /\ ret' = 0
    /\ tasks' = <<>>
    /\ UNCHANGED <<taskType, quota, calls, kept, rank>>

\* StorageValue::decode_len().unwrap()
shim_decode_len ==
    /\ stored # <<>>
    /\ decode_len(stored[1]) # <<>>
    /\ ret' = decode_len(stored[1])[1]
    /\ op' = "decode_len"
    /\ arg' = <<>>
    /\ prev' = StoredQueue
    /\ tasks' = <<>>
    /\ UNCHANGED <<taskType, quota, calls, kept, rank, stored>>

\* StorageValue::get().unwrap(), with count() of the executor read
shim_get ==
    /\ stored # <<>>
    /\ decode_executor(stored[1]) # <<>>
    /\ tasks' = decode_executor(stored[1])[1]
    /\ ret' = count(decode_executor(stored[1])[1])
    /\ op' = "get"
    /\ arg' = <<>>
    /\ prev' = <<>>
    /\ UNCHANGED <<taskType, quota, calls, kept, rank, stored>>

InitShim == new("Task")

NextShim ==
    \/ \E t \in ShimTasks : Len(StoredQueue) < MaxTestLen /\ shim_append(t)
    \/ /\ Len(StoredQueue) < MaxStoredLen
       /\ \A i \in 1..Len(StoredQueue) : StoredQueue[i] = Filler(i)
       /\ shim_append(Filler(Len(StoredQueue) + 1))
    \/ shim_decode_len
    \/ shim_get

SpecShim == InitShim /\ [][NextShim]_vars

\* =================================================================== claims
RECURSIVE SumOf(_)
SumOf(ns) == IF ns = <<>> THEN 0 ELSE Head(ns) + SumOf(Tail(ns))

\* the sum of the remaining weights of a queue
SumWeights(ts) == SumOf([i \in 1..Len(ts) |-> leftover(ts[i])])

\* a queue of reference tasks that all have half = 0 and greedy = true
AllGreedyFull(ts) ==
    \A i \in 1..Len(ts) : ts[i].kind = "Task" /\ ts[i].greedy /\ ts[i].half = 0

\* the indices in prev of the tasks the last operation invoked
Invoked == {calls[k].idx : k \in 1..Len(calls)}

\* C1 Budget respected: the weight execute() returned is at most the quota it
\* read, after any sequence of add_task/remove/execute and whatever the tasks
\* report; and single_pass on the current queue returns at most W for every W.
BudgetRespected ==
    /\ op = "execute" => ret <= quota
    /\ \A W \in Quotas : single_pass(tasks, W).consumed <= W

\* C1 witness: a task reported more than its cap, and the pass returned the quota
BudgetRespectedWitness ==
    /\ op = "execute"
    /\ \E k \in 1..Len(calls) : calls[k].consumed > calls[k].cap
    /\ ret = quota

\* C2 as stated: every execute() with a positive quota on a non-empty queue of
\* greedy, half = 0 reference tasks strictly reduces the sum of the remaining
\* weights.
StrictProgress ==
    (op = "execute" /\ quota > 0 /\ prev # <<>> /\ AllGreedyFull(prev))
        => SumWeights(tasks) < SumWeights(prev)

\* C2 amended: such an execute() strictly reduces the sum of the remaining
\* weights whenever that sum is positive; when every queued task has weight 0
\* the sum stays 0 and the call empties the queue.
StrictProgressOrEmptied ==
    (op = "execute" /\ quota > 0 /\ prev # <<>> /\ AllGreedyFull(prev))
        => IF SumWeights(prev) > 0
           THEN SumWeights(tasks) < SumWeights(prev)
           ELSE tasks = <<>>

\* C2 witness: a pass over greedy tasks that made progress without emptying the queue
StrictProgressWitness ==
    /\ op = "execute" /\ quota > 0 /\ prev # <<>> /\ AllGreedyFull(prev)
    /\ tasks # <<>>
    /\ SumWeights(tasks) < SumWeights(prev)

\* the state after an execute() on an empty queue that returned 0 and left it empty
Drained == tasks = <<>> /\ op = "execute" /\ prev = <<>> /\ ret = 0 /\ calls = <<>>

\* C3 Eventual drain: under a fixed positive quota, a queue of greedy, half = 0
\* reference tasks that is executed again and again becomes empty, and from
\* then on every execute() returns 0 and leaves it empty.
EventualDrain == AllGreedyFull(tasks) ~> []Drained

\* C3 witness: the last step of the run with quota 7 on [10, 10, 10]: the pass
\* on [2] returns 2 and empties the queue
EventualDrainWitness ==
    /\ op = "execute" /\ quota = 7
    /\ prev = <<build(2, 0, TRUE)>>
    /\ ret = 2
    /\ tasks = <<>>

\* C4 Work conservation: for a queue of greedy, half = 0 reference tasks
\* execute() returns min(W, sum of the weights), and the surviving queue is the
\* old one with that amount deducted from the head: the removed tasks are a
\* prefix whose weights the amount covers, the first survivor carries what is
\* left of the deduction, the others are untouched.
WorkConservation ==
    (op = "execute" /\ AllGreedyFull(prev)) =>
        LET k == Len(prev) - Len(tasks)
            gone == SumWeights(SubSeq(prev, 1, k))
        IN /\ ret = Min(quota, SumWeights(prev))
           /\ k >= 0
           /\ gone <= ret
           /\ tasks = <<>> => ret = gone
           /\ tasks # <<>> =>
                 /\ (ret = gone \/ ret - gone < prev[k + 1].weight)
                 /\ tasks[1] = [prev[k + 1] EXCEPT !.weight = @ - (ret - gone)]
           /\ \A j \in 2..Len(tasks) : tasks[j] = prev[k + j]

\* C4 witness: quota 12 on [10, 10, 10] returns 12 and leaves [8, 10]: one task
\* finished, the next one partly consumed, the third untouched
WorkConservationWitness ==
    /\ op = "execute" /\ quota = 12
    /\ prev = <<build(10, 0, TRUE), build(10, 0, TRUE), build(10, 0, TRUE)>>
    /\ ret = 12
    /\ tasks = <<build(8, 0, TRUE), build(10, 0, TRUE)>>

\* C5 Zero quota is a no-op: with quota 0, execute() returns 0, invokes no task
\* and leaves the queue as it was, on every repetition.
ZeroQuotaNoop ==
    (op = "execute" /\ quota = 0) => (ret = 0 /\ calls = <<>> /\ tasks = prev)

\* C5 witness: a zero-quota pass over a queue holding a task that would finish
\* at no cost if it were invoked
ZeroQuotaNoopWitness ==
    /\ op = "execute" /\ quota = 0
    /\ \E i \in 1..Len(tasks) : task_execute(tasks[i], 0).survivor = <<>>

\* C6 Empty queue is a no-op: for every quota, execute() on an empty queue
\* returns 0, invokes nothing and leaves the queue empty, on every repetition.
EmptyQueueNoop ==
    /\ (op = "execute" /\ prev = <<>>) => (ret = 0 /\ calls = <<>> /\ tasks = <<>>)
    /\ \A W \in Quotas : LET r == single_pass(<<>>, W)
                         IN r.consumed = 0 /\ r.next_tasks = <<>>

\* C6 witness: an execute() with a positive quota on an empty queue
EmptyQueueNoopWitness == op = "execute" /\ prev = <<>> /\ quota > 0

\* C7 Order preservation: after any sequence of add_task, remove and execute
\* the queued tasks are in the order in which they were added; and every task
\* an execute() neither invoked nor completed is present afterwards, unchanged,
\* at its relative position.
OrderPreservation ==
    /\ Len(rank) = Len(tasks)
    /\ \A i \in 1..Len(rank) : rank[i] = i
    /\ op = "execute" =>
          /\ Len(kept) = Len(tasks)
          /\ \A a, b \in 1..Len(kept) : a < b => kept[a] < kept[b]
          /\ \A i \in 1..Len(prev) :
                i \notin Invoked => \E j \in 1..Len(kept) : kept[j] = i /\ tasks[j] = prev[i]

\* C7 witness: of three queued tasks the first was invoked and survived, the
\* second completed and the third, not invoked, moved up behind the first
OrderPreservationWitness ==
    /\ op = "execute"
    /\ Len(prev) = 3
    /\ kept = <<1, 3>>
    /\ Invoked = {1, 2}
    /\ tasks[2] = prev[3]

\* the amount a reference task tries to consume in its next step
Target(t) == IF t.half = 0 THEN t.weight ELSE t.weight \div 2

\* the budget left when the walk of the last execute() reached prev[j]
LeftoverAt(j) ==
    saturating_sub(quota, SumOf([k \in 1..Len(calls) |->
                                   IF calls[k].idx < j THEN calls[k].consumed ELSE 0]))

\* prev[i] is a non-greedy task that was invoked and did not fit its cap
DidNotFit(i) ==
    /\ ~prev[i].greedy
    /\ \E k \in 1..Len(calls) : calls[k].idx = i /\ Target(prev[i]) > calls[k].cap

\* prev[j] was invoked and consumed something
Advanced(j) == \E k \in 1..Len(calls) : calls[k].idx = j /\ calls[k].consumed > 0

SubParQueue == <<build(30, 1, FALSE), build(20, 1, FALSE), build(10, 1, FALSE)>>

\* C9 One invocation per task per pass: an execute() invokes the queued tasks
\* in queue order, each at most once; what is left of the budget after the
\* walk is not offered again: quota 36 on non-greedy half = 1 tasks of weights
\* [30, 20, 10] returns 30 and leaves [15, 10, 5].
OneInvocationPerPass ==
    op = "execute" =>
        /\ Len(calls) <= Len(prev)
        /\ \A k \in 1..Len(calls) : calls[k].idx \in 1..Len(prev)
        /\ \A a, b \in 1..Len(calls) : a < b => calls[a].idx < calls[b].idx
        /\ (prev = SubParQueue /\ quota = 36) =>
              /\ ret = 30
              /\ tasks = <<build(15, 0, FALSE), build(10, 0, FALSE), build(5, 0, FALSE)>>

\* C9 witness: after that pass the last survivor would consume the 6 that are left
OneInvocationPerPassWitness ==
    /\ op = "execute" /\ prev = SubParQueue /\ quota = 36
    /\ ret < quota
    /\ Len(tasks) = 3
    /\ task_execute(tasks[3], quota - ret).consumed = 5

\* C10 remove(t) deletes the first element equal to t and nothing else, the
\* other elements keep their order; with no element equal to t the queue is
\* unchanged; no task is executed either way.
RemoveFirstMatch ==
    op = "remove" =>
        LET t == arg[1] IN
        /\ calls = <<>>
        /\ ret = 0
        /\ IF \E i \in 1..Len(prev) : prev[i] = t
           THEN \E i \in 1..Len(prev) :
                    /\ prev[i] = t
                    /\ \A k \in 1..(i - 1) : prev[k] # t
                    /\ Len(tasks) = Len(prev) - 1
                    /\ \A k \in 1..(i - 1) : tasks[k] = prev[k]
                    /\ \A k \in i..Len(tasks) : tasks[k] = prev[k + 1]
           ELSE tasks = prev

\* C10 witness: t was queued first and third; the first is gone, the later
\* duplicate stays behind the task that was between them
RemoveFirstMatchWitness ==
    /\ op = "remove"
    /\ Len(prev) = 3
    /\ prev[1] = arg[1] /\ prev[3] = arg[1] /\ prev[2] # arg[1]
    /\ tasks = <<prev[2], prev[3]>>


\* the call the last execute() made on prev[i]
CallOf(i) == calls[CHOOSE k \in 1..Len(calls) : calls[k].idx = i]

\* the indices in prev of the tasks whose execute returned None in the last execute()
Completed == {calls[k].idx : k \in {n \in 1..Len(calls) : ~calls[n].survived}}

\* C11 Completed tasks are removed for good and nothing is added: after
\* execute() the queue is, in order, the tasks of the old queue that were not
\* invoked, unchanged, and the survivors of the invoked ones; it is not longer
\* than the old queue; a task whose execute returned None is not among them.
\* As every execute() builds its queue from the one it found, such a task is
\* in no later queue either.
CompletedRemoved ==
    op = "execute" =>
        /\ Len(tasks) <= Len(prev)
        /\ Len(kept) = Len(tasks)
        /\ {kept[j] : j \in 1..Len(kept)} = (1..Len(prev)) \ Completed
        /\ \A j \in 1..Len(kept) :
              IF kept[j] \in Invoked
              THEN <<tasks[j]>> = task_execute(prev[kept[j]], CallOf(kept[j]).cap).survivor
              ELSE tasks[j] = prev[kept[j]]

\* C11 witness: of three queued tasks one completed, one survived its
\* invocation and one was not invoked: two are left
CompletedRemovedWitness ==
    /\ op = "execute"
    /\ Len(prev) = 3 /\ Len(tasks) = 2
    /\ Completed # {}
    /\ \E i \in Invoked : i \notin Completed
    /\ \E i \in 1..Len(prev) : i \notin Invoked


\* C13 add_task(t) appends t at the tail and executes or alters nothing: the
\* queue is the old queue followed by t, count() is the old count plus one,
\* no task was invoked; a newly created executor has count() = 0.
AddTaskAppends ==
    /\ op = "add_task" =>
          /\ count(tasks) = count(prev) + 1
          /\ tasks[Len(tasks)] = arg[1]
          /\ \A i \in 1..Len(prev) : tasks[i] = prev[i]
          /\ calls = <<>>
          /\ ret = 0
    /\ op = "new" => count(tasks) = 0 /\ tasks = <<>>

\* C13 witness: a task was added behind two others, the first of which differs
\* from it and would complete if it were executed
AddTaskAppendsWitness ==
    /\ op = "add_task"
    /\ count(prev) = 2 /\ count(tasks) = 3
    /\ prev[1] # arg[1]
    /\ task_execute(prev[1], 1).survivor = <<>>


\* C14 Budget flow: in one execute() with quota W the cap handed to a queued
\* task is W minus (saturating) what the tasks before it consumed; after a
\* task that consumed 0 the next task is handed the same cap; and every task
\* is invoked as long as that cap is not zero.
BudgetFlow ==
    op = "execute" =>
        /\ \A k \in 1..Len(calls) : calls[k].cap = LeftoverAt(calls[k].idx)
        /\ \A k \in 1..(Len(calls) - 1) :
              calls[k].consumed = 0 =>
                  /\ calls[k + 1].idx = calls[k].idx + 1
                  /\ calls[k + 1].cap = calls[k].cap
        /\ \A i \in 1..Len(prev) : LeftoverAt(i) > 0 => i \in Invoked

\* C14 witness: the first task consumed part of the quota, the second consumed
\* 0 and the third was handed what the second was handed
BudgetFlowWitness ==
    /\ op = "execute"
    /\ Len(calls) = 3
    /\ calls[1].consumed > 0
    /\ calls[2].cap = quota - calls[1].consumed
    /\ calls[2].consumed = 0
    /\ calls[3].cap = calls[2].cap


\* the position in tasks of the task that was prev[i], 0 when it is gone
PlaceOf(i) ==
    IF \E p \in 1..Len(kept) : kept[p] = i
    THEN CHOOSE p \in 1..Len(kept) : kept[p] = i
    ELSE 0

\* C15 Exhausted budget stops execution: once the leftover is zero in a pass,
\* no later task of the queue is invoked, and each of them is in the surviving
\* queue, unchanged and in the order they had, also a task that would complete
\* at no cost.
ExhaustedBudgetStops ==
    op = "execute" =>
        \A i \in 1..Len(prev) :
            LeftoverAt(i) = 0 =>
                /\ i \notin Invoked
                /\ PlaceOf(i) # 0
                /\ tasks[PlaceOf(i)] = prev[i]
                /\ \A j \in (i + 1)..Len(prev) :
                      /\ j \notin Invoked
                      /\ PlaceOf(j) = PlaceOf(i) + (j - i)

\* C15 witness: a pass with a positive quota invoked a task, the budget ran
\* out, and a later task that completes at no cost when invoked was carried over
ExhaustedBudgetStopsWitness ==
    /\ op = "execute" /\ quota > 0
    /\ calls # <<>>
    /\ \E i \in 1..Len(prev) :
          /\ LeftoverAt(i) = 0
          /\ task_execute(prev[i], 1).survivor = <<>>
          /\ task_execute(prev[i], 1).consumed = 0
          /\ PlaceOf(i) # 0


\* C16 as stated: a task whose execute consumed 0 under a non-zero cap is still
\* in the queue after that execute().
NonProgressingCarried ==
    op = "execute" =>
        \A k \in 1..Len(calls) :
            (calls[k].consumed = 0 /\ calls[k].cap > 0) => PlaceOf(calls[k].idx) # 0

\* C16 amended: a task whose execute consumed 0 under a non-zero cap is carried
\* over, at its relative position, exactly when it returned Some; a reference
\* task does so exactly when its weight is positive, and keeps that weight; a
\* task that returned None with 0 consumed is removed, as the unit task always is.
NonProgressingCarriedIfSome ==
    op = "execute" =>
        \A k \in 1..Len(calls) :
            (calls[k].consumed = 0 /\ calls[k].cap > 0) =>
                LET i == calls[k].idx IN
                /\ calls[k].survived <=> PlaceOf(i) # 0
                /\ prev[i].kind = "Task" => (calls[k].survived <=> prev[i].weight > 0)
                /\ prev[i].kind = "Unit" => ~calls[k].survived
                /\ PlaceOf(i) # 0 =>
                      /\ tasks[PlaceOf(i)].kind = prev[i].kind
                      /\ tasks[PlaceOf(i)].weight = prev[i].weight
                      /\ \A j \in 1..Len(prev) :
                            (j # i /\ PlaceOf(j) # 0) => (j < i <=> PlaceOf(j) < PlaceOf(i))

\* C16 witness: a non-greedy task that did not fit consumed 0 and is at the
\* head of the new queue, while the task behind it completed
NonProgressingCarriedWitness ==
    /\ op = "execute"
    /\ Len(calls) = 2
    /\ calls[1].consumed = 0 /\ calls[1].survived
    /\ prev[1].kind = "Task" /\ ~prev[1].greedy
    /\ calls[2].consumed > 0 /\ ~calls[2].survived
    /\ tasks = <<prev[1]>>


\* what the claim says a reference task consumes when it is handed cap
StepConsumed(t, cap) ==
    IF t.greedy THEN Min(Target(t), cap)
    ELSE IF Target(t) <= cap THEN Target(t) ELSE 0

\* what the claim says is left of a reference task after that step
StepTask(t, cap) ==
    [t EXCEPT !.weight = @ - StepConsumed(t, cap),
              !.half = IF @ = 0 THEN 0 ELSE @ - 1]

LeftoverAtEnd == LeftoverAt(Len(prev) + 1)

\* C18 Exact-cap reporting: execute() returns the quota minus the budget left
\* at the end of the walk; when every task reported at most the cap it was
\* given this is the sum of what the tasks reported; when a task reported more
\* than its cap the leftover is zero and the value is exactly the quota.
ExactCapReporting ==
    op = "execute" =>
        /\ ret = quota - LeftoverAtEnd
        /\ (\A k \in 1..Len(calls) : calls[k].consumed <= calls[k].cap)
              => ret = SumConsumed(calls)
        /\ (\E k \in 1..Len(calls) : calls[k].consumed > calls[k].cap)
              => (LeftoverAtEnd = 0 /\ ret = quota /\ ret < SumConsumed(calls))

\* C18 witness: the first task reported less than its cap, the second more
\* than what was left: the reports add up to more than the quota
ExactCapReportingWitness ==
    /\ op = "execute"
    /\ Len(calls) = 2
    /\ calls[1].consumed > 0 /\ calls[1].consumed < calls[1].cap
    /\ calls[2].consumed > calls[2].cap
    /\ SumConsumed(calls) > quota
    /\ ret = quota


\* C19 Weight conservation for the reference task: for every queue of
\* reference tasks, greedy or not, with any half, and every quota, execute()
\* returns the sum of the remaining weights before the call minus the sum after
\* it; holding at every call, it holds over every sequence of calls.
WeightConservation ==
    (op = "execute" /\ taskType = "Task") =>
        /\ ret = SumWeights(prev) - SumWeights(tasks)
        /\ ret = SumConsumed(calls)

\* C19 witness: a non-greedy task with half = 1 and a greedy task shared the
\* quota, and both are still queued with part of their weight
WeightConservationWitness ==
    /\ op = "execute" /\ taskType = "Task"
    /\ Len(prev) = 2 /\ Len(tasks) = 2
    /\ ~prev[1].greedy /\ prev[1].half > 0 /\ prev[2].greedy
    /\ tasks[1].weight < prev[1].weight
    /\ tasks[2].weight < prev[2].weight
    /\ ret = quota


\* no queued task has a remaining weight within the quota
GoneBelowQuota == \A i \in 1..Len(tasks) : tasks[i].weight > quota

\* a non-greedy, half = 0 task whose weight exceeded the quota of the last
\* execute() is still queued, as it was
StuckStays ==
    op = "execute" =>
        \A i \in 1..Len(prev) :
            (~prev[i].greedy /\ prev[i].half = 0 /\ prev[i].weight > quota) =>
                (PlaceOf(i) # 0 /\ tasks[PlaceOf(i)] = prev[i])

\* C20 as stated: when the queue is executed again and again under a quota,
\* every reference task whose remaining weight is within that quota eventually
\* returns None and is gone for good; and a non-greedy, half = 0 task whose
\* weight exceeds the quota is never removed by execute().
TaskTermination ==
    /\ (op = "execute") ~> []GoneBelowQuota
    /\ []StuckStays

\* C20 amended: the same under a non-zero quota; with quota 0 execute() invokes
\* nothing, so a task of weight 0 stays queued.
TaskTerminationNonZeroQuota ==
    /\ (op = "execute" /\ quota > 0) ~> []GoneBelowQuota
    /\ []StuckStays

\* C20 witness: under quota 1 a non-greedy task of weight 1 completed behind a
\* non-greedy task of weight 2, which stays
TaskTerminationWitness ==
    /\ op = "execute" /\ quota = 1
    /\ prev = <<build(2, 0, FALSE), build(1, 0, FALSE)>>
    /\ tasks = <<build(2, 0, FALSE)>>


\* the stored value after 10, 20 and 30 were appended to no value
Appended102030 ==
    storage_append(storage_append(storage_append(<<>>,
        encode_task(build(10, 0, TRUE))),
        encode_task(build(20, 0, TRUE))),
        encode_task(build(30, 0, TRUE)))

\* C12 Append and length probe on the serialized form agree with the queue:
\* the stored bytes are always the encoding of a queue Q, a compact length and
\* the tasks in order, and the length probe on them returns len(Q); appending
\* t to the encoding of Q gives the encoding of Q followed by t; after 10, 20
\* and 30 were appended to no value the probe returns 3 and the value decodes
\* to tasks of weights 10, 20, 30.
ShimAgrees ==
    /\ stored # <<>> =>
          /\ stored[1] = encode_executor(StoredQueue)
          /\ decode_len(stored[1]) = <<Len(StoredQueue)>>
    /\ op = "append" =>
          /\ stored = <<encode_executor(push(prev, arg[1]))>>
          /\ decode_len(stored[1]) = <<Len(prev) + 1>>
    /\ op = "decode_len" => (ret = Len(prev) /\ stored = <<encode_executor(prev)>>)
    /\ stored = Appended102030 =>
          /\ decode_len(stored[1]) = <<3>>
          /\ op = "get" =>
                /\ ret = 3
                /\ [i \in 1..Len(tasks) |-> leftover(tasks[i])] = <<10, 20, 30>>

\* C12 witness: 10, 20 and 30 were appended to no value and the value was read back
ShimAgreesWitness ==
    /\ op = "get"
    /\ stored = Appended102030
    /\ ret = 3

====
